---- MODULE Spec2Model ----
(***************************************************************************)
(* The shop application: an Express middleware chain (app.js) in front of  *)
(* the admin router (routes/admin.js, which owns the in-memory product     *)
(* list) and the shop router (routes/shop.js).                             *)
(*                                                                         *)
(* A request walks the chain in registration order:                        *)
(*   bodyParser -> static -> /admin router -> shop router -> 404 catch-all *)
(* Each middleware is one action.  bodyParser and express.static finish    *)
(* asynchronously, and res.render produces its response in a later tick,   *)
(* so several requests are in flight at once and their steps interleave.   *)
(* Methods modelled: GET and POST, with bodies the body parser accepts.    *)
(***************************************************************************)
EXTENDS Naturals, Sequences, FiniteSets

\* ---------------------------------------------------------------- bounds
\* Requests that can be in flight at the same time.
NumSlots == 2
\* Requests accepted over the whole run.
MaxRequests == 3

\* ------------------------------------------------------- program constants
NotFoundStatus == 404

Slots == 1..NumSlots

\* --------------------------------------------------------------- requests
Methods == {"GET", "POST"}

\* A path is its sequence of segments: "/" is <<>>, "/admin/products" is
\* <<"admin", "products">>.
RootPath == <<>>
Paths ==
  { RootPath,
    <<"admin", "add-product">>,
    <<"admin", "products">>,
    <<"admin", "does-not-exist">>,
    <<"css", "main.css">>,
    <<"does-not-exist">> }

\* A form field that was not submitted reads as undefined.
Undefined == "undefined"

\* The submitted forms: a well-formed one, and one with an empty title, a
\* non-numeric price and two fields missing.
WellFormed ==
  [title |-> "Shirt", imageUrl |-> "/img.png", price |-> "19.99", description |-> "cotton"]
Malformed ==
  [title |-> "", imageUrl |-> Undefined, price |-> "abc", description |-> Undefined]
Forms == { WellFormed, Malformed }

EmptyBody ==
  [title |-> Undefined, imageUrl |-> Undefined, price |-> Undefined, description |-> Undefined]

\* Files under public/ that express.static can serve.
PublicFiles == { <<"css", "main.css">> }

VARIABLES
  products,   \* adminData.products: the contents of the one exported array
  nextId,     \* the store's next free identifier
  calls,      \* history: the arguments of every addProduct call, in call order
  reqs,       \* the requests in flight, one per slot
  arrived     \* how many requests were accepted so far

vars == <<products, nextId, calls, reqs, arrived>>

IdleReq ==
  [method |-> "GET", path |-> RootPath, form |-> EmptyBody, body |-> EmptyBody,
   stage |-> "idle", renders |-> <<>>, answers |-> <<>>]

Init ==
  /\ products = <<>>
  /\ nextId = 1
  /\ calls = <<>>
  /\ reqs = [s \in Slots |-> IdleReq]
  /\ arrived = 0

\* A slot is free when it never held a request, or when the chain of its
\* request has ended and every response it asked for has been sent.
Finished(q) == q.stage = "end" /\ q.renders = <<>>

\* The requests the server is sent: a GET carries no form; a POST of the
\* add-product form carries any of the forms, a POST elsewhere the first.
Requests ==
  { [method |-> "GET", path |-> p, form |-> EmptyBody] : p \in Paths }
    \cup { [method |-> "POST", path |-> <<"admin", "add-product">>, form |-> f] : f \in Forms }
    \cup { [method |-> "POST", path |-> p, form |-> WellFormed] : p \in Paths }

Free(q) == q.stage = "idle" \/ Finished(q)

\* A new request is accepted by the HTTP server (app.listen); it takes the
\* lowest free slot.
Arrive(s) ==
  /\ arrived < MaxRequests
  /\ Free(reqs[s])
  /\ \A t \in Slots : t < s => ~Free(reqs[t])
  /\ \E rq \in Requests :
        reqs' = [reqs EXCEPT ![s] =
                   [method |-> rq.method, path |-> rq.path, form |-> rq.form,
                    body |-> EmptyBody,
                    stage |-> "bodyParser", renders |-> <<>>, answers |-> <<>>]]
  /\ arrived' = arrived + 1
  /\ UNCHANGED <<products, nextId, calls>>

\* bodyParser.urlencoded({extended: false}): req.body becomes the parsed form
\* (an empty object when the request carries none), then next().
BodyParser(s) ==
  /\ reqs[s].stage = "bodyParser"
  /\ reqs' = [reqs EXCEPT ![s].body = reqs[s].form, ![s].stage = "static"]
  /\ UNCHANGED <<products, nextId, calls, arrived>>

\* ------------------------------------------------------------- responses
\* res.render(view, locals) hands the view name and the locals object to the
\* template engine; the response is sent when the engine calls back.
Render(q, status, view, locals) ==
  [q EXCEPT !.renders = Append(@, [status |-> status, view |-> view, locals |-> locals])]

\* A response sent synchronously by the handler.
Send(q, answer) == [q EXCEPT !.answers = Append(@, answer)]

\* The array a locals object holds under prods: the exported array itself
\* (a reference) or an array of its own (a copy).
ProductsRef == [ref |-> "adminData.products"]
CopyOf(seq) == [copy |-> seq]
DerefIn(p, store) == IF "ref" \in DOMAIN p THEN store ELSE p.copy
Deref(p) == DerefIn(p, products)

\* What the template engine reads from the locals when it renders: every
\* array is read through its reference at that moment.
Resolve(locals) ==
  IF "prods" \in DOMAIN locals THEN [locals EXCEPT !.prods = Deref(locals.prods)] ELSE locals

\* The template engine calls back: the rendered page is sent with the status
\* the handler set.
RenderDone(s) ==
  /\ reqs[s].renders # <<>>
  /\ LET r == Head(reqs[s].renders) IN
       reqs' = [reqs EXCEPT ![s] =
                  [Send(reqs[s], [status |-> r.status, kind |-> "render", view |-> r.view,
                                  page |-> Resolve(r.locals)])
                     EXCEPT !.renders = Tail(reqs[s].renders)]]
  /\ UNCHANGED <<products, nextId, calls, arrived>>

\* ---------------------------------------------------------- express.static
StaticMatches(q) == q.method = "GET" /\ q.path \in PublicFiles

StaticServe(s) ==
  /\ reqs[s].stage = "static"
  /\ StaticMatches(reqs[s])
  /\ reqs' = [reqs EXCEPT ![s] =
                [Send(reqs[s], [status |-> 200, kind |-> "file", file |-> reqs[s].path])
                   EXCEPT !.stage = "end"]]
  /\ UNCHANGED <<products, nextId, calls, arrived>>

StaticFallThrough(s) ==
  /\ reqs[s].stage = "static"
  /\ ~StaticMatches(reqs[s])
  /\ reqs' = [reqs EXCEPT ![s].stage = "admin"]
  /\ UNCHANGED <<products, nextId, calls, arrived>>

\* ------------------------------------------------------------ admin router
\* app.use('/admin', adminData.routes): the router sees the path with the
\* mount prefix stripped, and only paths under the prefix.
IsPrefix(a, b) == Len(a) <= Len(b) /\ SubSeq(b, 1, Len(a)) = a

\* Variant: the router is mounted without a path.
AdminPrefixNone == <<>>
AdminPrefix == <<"admin">>

AdminMounted(q) == IsPrefix(AdminPrefix, q.path)
AdminSubPath(q) == SubSeq(q.path, Len(AdminPrefix) + 1, Len(q.path))

AdminRoute(q) ==
  IF ~AdminMounted(q) THEN "none"
  ELSE IF q.method = "GET" /\ AdminSubPath(q) = <<"add-product">> THEN "getAddProduct"
  ELSE IF q.method = "POST" /\ AdminSubPath(q) = <<"add-product">> THEN "postAddProduct"
  ELSE IF q.method = "GET" /\ AdminSubPath(q) = <<"products">> THEN "getProducts"
  ELSE "none"

\* Variant: every product gets the same identifier.
NewProductSameId(title, imageUrl, price, description) ==
  [id |-> 1, title |-> title, imageUrl |-> imageUrl, price |-> price,
   description |-> description]
\* The store's add operation: a product with a fresh identifier, appended.
NewProduct(title, imageUrl, price, description) ==
  [id |-> nextId, title |-> title, imageUrl |-> imageUrl, price |-> price,
   description |-> description]

addProduct(title, imageUrl, price, description) ==
  /\ products' = Append(products, NewProduct(title, imageUrl, price, description))
  /\ nextId' = nextId + 1

\* GET /admin/add-product: the form, no catalog data.
AdminGetAddProduct(s) ==
  /\ reqs[s].stage = "admin"
  /\ AdminRoute(reqs[s]) = "getAddProduct"
  /\ reqs' = [reqs EXCEPT ![s] =
                [Render(reqs[s], 200, "add-product",
                        [pageTitle |-> "Add Product", path |-> "/admin/add-product"])
                   EXCEPT !.stage = "end"]]
  /\ UNCHANGED <<products, nextId, calls, arrived>>

\* POST /admin/add-product: the four fields of req.body go to the store as
\* they are, then a redirect to "/".
AdminPostAddProduct(s) ==
  /\ reqs[s].stage = "admin"
  /\ AdminRoute(reqs[s]) = "postAddProduct"
  /\ LET b == reqs[s].body IN
       /\ addProduct(b.title, b.imageUrl, b.price, b.description)
       /\ calls' = Append(calls, b)
  /\ reqs' = [reqs EXCEPT ![s] =
                [Send(reqs[s], [status |-> 302, kind |-> "redirect", location |-> "/"])
                   EXCEPT !.stage = "end"]]
  /\ UNCHANGED arrived

\* GET /admin/products: the catalog listing, admin view.
AdminGetProducts(s) ==
  /\ reqs[s].stage = "admin"
  /\ AdminRoute(reqs[s]) = "getProducts"
  /\ reqs' = [reqs EXCEPT ![s] =
                [Render(reqs[s], 200, "products",
                        [prods |-> ProductsRef, pageTitle |-> "Admin Products",
                         path |-> "/admin/products", hasProducts |-> Len(products) > 0])
                   EXCEPT !.stage = "end"]]
  /\ UNCHANGED <<products, nextId, calls, arrived>>

AdminFallThrough(s) ==
  /\ reqs[s].stage = "admin"
  /\ AdminRoute(reqs[s]) = "none"
  /\ reqs' = [reqs EXCEPT ![s].stage = "shop"]
  /\ UNCHANGED <<products, nextId, calls, arrived>>

\* ------------------------------------------------------------- shop router
\* router.get('/', ...)
ShopMatches(q) == q.method = "GET" /\ q.path = RootPath

\* Variants of the locals object: the list without its last entry; a list
\* captured when the module was loaded; an off-by-one presence test; a copy
\* of the list taken at the call.
ShopLocalsDropLast ==
  [prods |-> CopyOf(SubSeq(products, 1, Len(products) - 1)), pageTitle |-> "Shop",
   path |-> "/", hasProducts |-> Len(products) > 0]
ShopLocalsStale ==
  [prods |-> CopyOf(<<>>), pageTitle |-> "Shop", path |-> "/", hasProducts |-> FALSE]
ShopLocalsOffByOne ==
  [prods |-> ProductsRef, pageTitle |-> "Shop", path |-> "/",
   hasProducts |-> Len(Deref(ProductsRef)) > 1]
ShopLocalsCopy ==
  [prods |-> CopyOf(products), pageTitle |-> "Shop", path |-> "/",
   hasProducts |-> Len(products) > 0]

\* The locals object of the render call: prods is adminData.products itself.
ShopLocals ==
  [prods |-> ProductsRef, pageTitle |-> "Shop", path |-> "/",
   hasProducts |-> Len(Deref(ProductsRef)) > 0]

Reverse(seq) == [i \in 1..Len(seq) |-> seq[Len(seq) + 1 - i]]

\* Variants of the handler: it reverses the list in place before rendering;
\* it takes the first product off the list; it calls next() after rendering.
ShopGetIndexReversing(s) ==
  /\ reqs[s].stage = "shop"
  /\ ShopMatches(reqs[s])
  /\ products' = Reverse(products)
  /\ reqs' = [reqs EXCEPT ![s] =
                [Render(reqs[s], 200, "shop",
                        [prods |-> ProductsRef, pageTitle |-> "Shop", path |-> "/",
                         hasProducts |-> Len(products) > 0])
                   EXCEPT !.stage = "end"]]
  /\ UNCHANGED <<nextId, calls, arrived>>
ShopGetIndexShifting(s) ==
  /\ reqs[s].stage = "shop"
  /\ ShopMatches(reqs[s])
  /\ products' = IF products = <<>> THEN products ELSE Tail(products)
  /\ reqs' = [reqs EXCEPT ![s] =
                [Render(reqs[s], 200, "shop",
                        [prods |-> ProductsRef, pageTitle |-> "Shop", path |-> "/",
                         hasProducts |-> Len(products) > 1])
                   EXCEPT !.stage = "end"]]
  /\ UNCHANGED <<nextId, calls, arrived>>
ShopGetIndexCallsNext(s) ==
  /\ reqs[s].stage = "shop"
  /\ ShopMatches(reqs[s])
  /\ reqs' = [reqs EXCEPT ![s] =
                [Render(reqs[s], 200, "shop",
                        [prods |-> ProductsRef, pageTitle |-> "Shop", path |-> "/",
                         hasProducts |-> Len(products) > 0])
                   EXCEPT !.stage = "notFound"]]
  /\ UNCHANGED <<products, nextId, calls, arrived>>

\* router.get('/', (req, res, next) => { ... res.render('shop', {...}) })
ShopGetIndex(s) ==
  /\ reqs[s].stage = "shop"
  /\ ShopMatches(reqs[s])
  /\ reqs' = [reqs EXCEPT ![s] =
                [Render(reqs[s], 200, "shop", ShopLocals) EXCEPT !.stage = "end"]]
  /\ UNCHANGED <<products, nextId, calls, arrived>>

ShopFallThrough(s) ==
  /\ reqs[s].stage = "shop"
  /\ ~ShopMatches(reqs[s])
  /\ reqs' = [reqs EXCEPT ![s].stage = "notFound"]
  /\ UNCHANGED <<products, nextId, calls, arrived>>

\* ------------------------------------------------------------ 404 catch-all
NotFoundLocals == [pageTitle |-> "Page Not Found"]

\* Variant: the handler renders the page without setting the status.
NotFoundDefaultStatus(s) ==
  /\ reqs[s].stage = "notFound"
  /\ reqs' = [reqs EXCEPT ![s] =
                [Render(reqs[s], 200, "404", NotFoundLocals) EXCEPT !.stage = "end"]]
  /\ UNCHANGED <<products, nextId, calls, arrived>>

NotFound(s) ==
  /\ reqs[s].stage = "notFound"
  /\ reqs' = [reqs EXCEPT ![s] =
                [Render(reqs[s], NotFoundStatus, "404", NotFoundLocals)
                   EXCEPT !.stage = "end"]]
  /\ UNCHANGED <<products, nextId, calls, arrived>>

Next ==
  \E s \in Slots :
    \/ Arrive(s)
    \/ BodyParser(s)
    \/ StaticServe(s)
    \/ StaticFallThrough(s)
    \/ AdminGetAddProduct(s)
    \/ AdminPostAddProduct(s)
    \/ AdminGetProducts(s)
    \/ AdminFallThrough(s)
    \/ ShopGetIndex(s)
    \/ ShopFallThrough(s)
    \/ NotFound(s)
    \/ RenderDone(s)

Spec == Init /\ [][Next]_vars

\* ================================================================= claims
\* The render calls of view v that a request is waiting on, and the pages of
\* view v it has been sent.
PendingRenders(q, v) == { i \in DOMAIN q.renders : q.renders[i].view = v }
SentPages(q, v) ==
  { i \in DOMAIN q.answers : q.answers[i].kind = "render" /\ q.answers[i].view = v }

ProductFields(p) ==
  [title |-> p.title, imageUrl |-> p.imageUrl, price |-> p.price,
   description |-> p.description]

\* One entry per addProduct call, in call order, with the call's field values.
MatchesCalls(seq) ==
  /\ Len(seq) = Len(calls)
  /\ \A k \in DOMAIN seq : ProductFields(seq[k]) = calls[k]

IsPostAddProduct(q) == q.method = "POST" /\ q.path = <<"admin", "add-product">>

\* The step in which the shop handler of slot s runs.
ShopHandlerStep(s) == reqs[s].stage = "shop" /\ ShopMatches(reqs[s]) /\ reqs'[s] # reqs[s]

\* The locals of the render call the shop handler of slot s has just made.
LastLocals(q) == q.renders[Len(q.renders)].locals

\* C1: after any sequence of addProduct calls the store's list, and the
\* sequence the shop handler passes to the template as prods, holds exactly the
\* added products, one per call, in call order.
C1_ListIsCallsInOrder ==
  /\ MatchesCalls(products)
  /\ \A s \in Slots : \A i \in PendingRenders(reqs[s], "shop") :
        MatchesCalls(Deref(reqs[s].renders[i].locals.prods))

C1_Witness ==
  /\ Len(calls) >= 2
  /\ calls[1] # calls[2]
  /\ \E s \in Slots : PendingRenders(reqs[s], "shop") # {}

\* C2: no two products of the store share an identifier, also when they carry
\* the same field values.
C2_IdsUnique ==
  \A i, j \in DOMAIN products : i # j => products[i].id # products[j].id

C2_Witness ==
  /\ Len(products) >= 2
  /\ ProductFields(products[1]) = ProductFields(products[2])
  /\ \E s, u \in Slots : s # u /\ IsPostAddProduct(reqs[s]) /\ IsPostAddProduct(reqs[u])

\* C3: when the shop handler runs, the sequence it passes to the renderer
\* contains every product added by a POST /admin/add-product that completed
\* before.
C3_ReadAfterWrite ==
  [][\A s \in Slots : ShopHandlerStep(s) /\ reqs'[s].renders # <<>> =>
        LET seq == DerefIn(LastLocals(reqs'[s]).prods, products') IN
          \A k \in DOMAIN products : \E i \in DOMAIN seq : seq[i] = products[k]]_vars

C3_Witness ==
  \E s, u \in Slots :
    /\ s # u
    /\ IsPostAddProduct(reqs[u]) /\ Finished(reqs[u])
    /\ \E i \in SentPages(reqs[s], "shop") : reqs[s].answers[i].page.prods # <<>>

\* A request that matches no registered handler.
Unmatched(q) == ~StaticMatches(q) /\ AdminRoute(q) = "none" /\ ~ShopMatches(q)

NotFoundPage ==
  [status |-> 404, kind |-> "render", view |-> "404",
   page |-> [pageTitle |-> "Page Not Found"]]

C5_HasProductsIffNonEmpty ==
  [][\A s \in Slots : ShopHandlerStep(s) /\ reqs'[s].renders # <<>> =>
        LET l == LastLocals(reqs'[s]) IN
          l.hasProducts = (Len(DerefIn(l.prods, products')) > 0)]_vars

C5_Witness ==
  \E s, u \in Slots :
    /\ \E i \in PendingRenders(reqs[s], "shop") : reqs[s].renders[i].locals.hasProducts
    /\ \E i \in SentPages(reqs[u], "shop") : ~reqs[u].answers[i].page.hasProducts

RedirectHome == [status |-> 302, kind |-> "redirect", location |-> "/"]

C7_AppendOnly == [][IsPrefix(products, products')]_vars

C7_Witness ==
  /\ Len(products) >= 2
  /\ products[1].title # products[2].title
  /\ \E s \in Slots : SentPages(reqs[s], "shop") # {}

\* C8: only the handler of POST /admin/add-product changes the catalog; every
\* other step of every request leaves the list as it was.
C8_OnlyPostAddChangesCatalog ==
  [][products' # products =>
       \E s \in Slots : /\ IsPostAddProduct(reqs[s])
                        /\ reqs[s].stage = "admin"
                        /\ reqs'[s].stage = "end"]_vars

C8_Witness ==
  /\ products # <<>>
  /\ \E s, u \in Slots :
       /\ SentPages(reqs[s], "products") # {}
       /\ reqs[u].method = "GET" /\ reqs[u].answers # <<>>
       /\ reqs[u].path \in {RootPath, <<"css", "main.css">>, <<"does-not-exist">>}

\* C9 as stated: a sequence handed to the renderer by the shop handler is not
\* changed by a later addProduct.
C9_HandedSequenceIsStable ==
  [][\A s \in Slots : \A i \in PendingRenders(reqs[s], "shop") :
        DerefIn(reqs[s].renders[i].locals.prods, products')
          = Deref(reqs[s].renders[i].locals.prods)]_vars

\* C9 as amended: the shop handler hands the renderer the store's own list:
\* what the renderer sees through it is the store's current list.
C9_HandedSequenceIsStoreList ==
  \A s \in Slots : \A i \in PendingRenders(reqs[s], "shop") :
    Deref(reqs[s].renders[i].locals.prods) = products

C9_Witness ==
  \E s \in Slots : \E i \in PendingRenders(reqs[s], "shop") :
    /\ ~reqs[s].renders[i].locals.hasProducts
    /\ Deref(reqs[s].renders[i].locals.prods) # <<>>

\* The handler that answers a request: the first in registration order that
\* matches it.
FirstMatch(q) ==
  IF StaticMatches(q) THEN "static"
  ELSE IF AdminRoute(q) # "none" THEN "admin"
  ELSE IF ShopMatches(q) THEN "shop"
  ELSE "notFound"

\* The handler a response comes from.
RenderedBy(view) ==
  IF view \in {"add-product", "products"} THEN "admin"
  ELSE IF view = "shop" THEN "shop"
  ELSE "notFound"
AnsweredBy(a) ==
  IF a.kind = "file" THEN "static"
  ELSE IF a.kind = "redirect" THEN "admin"
  ELSE RenderedBy(a.view)

====
